---- MODULE Spec2Model ----
\* Model of examples/watch_stream.py: the two readers (read_from_stdin and
\* read_from_named_pipe), the JSON decoding they perform and the reference
\* handler handle_event.
\*
\* Bytes and characters are natural numbers (their code points): 10 is '\n',
\* 12 is form feed, 32 is space, 49 is '1', 123 is '{', 125 is '}', 255 is the
\* byte 0xFF (never valid in UTF-8) resp. the character U+00FF on the text
\* transport.
EXTENDS Integers, Sequences, FiniteSets, TLC

\* ---------------------------------------------------------------- bounds

\* Largest number of newline-terminated records the producer writes in a run.
MaxRecords == 3

\* ------------------------------------------------------------- constants

\* The record separator b'\n'.
NL == 10

\* The size of one ReadFile request.
ReadSize == 65536

\* The whitespace json.loads skips around a document and between tokens.
JsonWhitespace == {9, 10, 13, 32}

\* The characters str.strip() removes (str.isspace, code points below 256).
StripWhitespace == {9, 10, 11, 12, 13, 28, 29, 30, 31, 32, 133, 160}

\* The JSON digits.
Digits == 48..57

\* The records the producer may write (each is written followed by NL).
SampleRecords ==
    { <<123, 125>>,        \* {}     an object
      <<49>>,              \* 1      valid JSON, not an object
      <<123>>,             \* {      malformed JSON
      <<255>>,             \* 0xFF   invalid UTF-8
      <<>>,                \*        empty record
      <<32>>,              \* ' '    whitespace only
      <<32, 123, 125>>,    \* ' {}'  object behind JSON whitespace
      <<12, 123, 125>> }   \* '\f{}' object behind a form feed

\* What the producer may have written after the last NL when the stream ends.
SampleTails == { <<>>, <<123>>, <<123, 125>> }

\* ------------------------------------------------------ sequence helpers

Min(S) == CHOOSE x \in S : \A y \in S : x <= y

Contains(s, b) == \E i \in 1..Len(s) : s[i] = b

\* bytes.find: the first index of b in s (s contains b).
IndexOf(s, b) == Min({i \in 1..Len(s) : s[i] = b})

Drop(s, n) == SubSeq(s, n + 1, Len(s))

Take(s, n) == SubSeq(s, 1, n)

RECURSIVE Flatten(_)
Flatten(ss) == IF ss = <<>> THEN <<>> ELSE Head(ss) \o Flatten(Tail(ss))

\* Every sequence over S of length at most n.
SeqsUpTo(S, n) == UNION {[1..k -> S] : k \in 0..n}

\* The stream R1 NL R2 NL ... Rn NL tail.
Wire(recs, tail) == Flatten([i \in 1..Len(recs) |-> Append(recs[i], NL)]) \o tail

Wires == {Wire(recs, tail) : recs \in SeqsUpTo(SampleRecords, MaxRecords), tail \in SampleTails}

\* ------------------------------------------------------------- decoding

\* bytes.decode('utf-8') on the model's bytes: bytes below 128 are the
\* characters of the same code point, and a byte 0xF8..0xFF starts no sequence.
Utf8Valid(bytes) == \A i \in 1..Len(bytes) : bytes[i] < 128

RECURSIVE LStrip(_, _)
LStrip(s, ws) == IF s # <<>> /\ Head(s) \in ws THEN LStrip(Tail(s), ws) ELSE s

RECURSIVE RStrip(_, _)
RStrip(s, ws) ==
    IF s # <<>> /\ s[Len(s)] \in ws THEN RStrip(Take(s, Len(s) - 1), ws) ELSE s

\* str.strip()
Strip(s) == RStrip(LStrip(s, StripWhitespace), StripWhitespace)

RECURSIVE IntVal(_)
IntVal(ds) == IF ds = <<>> THEN 0 ELSE 10 * IntVal(Take(ds, Len(ds) - 1)) + (ds[Len(ds)] - 48)

NoEvent == [kind |-> "none", val |-> 0, fields |-> <<>>]

DictEvent(fields) == [kind |-> "dict", val |-> 0, fields |-> fields]

IntEvent(n) == [kind |-> "int", val |-> n, fields |-> <<>>]

\* json.loads on a text of the model's characters: optional JSON whitespace, one
\* value (the empty object, with optional whitespace between its braces, or an
\* integer without a leading zero), optional JSON whitespace. Anything else
\* raises JSONDecodeError.
JsonLoads(text) ==
    LET t == RStrip(LStrip(text, JsonWhitespace), JsonWhitespace)
        n == Len(t)
    IN  IF n = 0 THEN [ok |-> FALSE, event |-> NoEvent]
        ELSE IF t[1] = 123
        THEN IF n >= 2 /\ t[n] = 125 /\ \A i \in 2..(n - 1) : t[i] \in JsonWhitespace
             THEN [ok |-> TRUE, event |-> DictEvent(<<>>)]
             ELSE [ok |-> FALSE, event |-> NoEvent]
        ELSE IF (\A i \in 1..n : t[i] \in Digits) /\ (n = 1 \/ t[1] # 48)
        THEN [ok |-> TRUE, event |-> IntEvent(IntVal(t))]
        ELSE [ok |-> FALSE, event |-> NoEvent]

\* -------------------------------------------------------------- handler

Get(event, key, default) ==
    IF key \in DOMAIN event.fields THEN event.fields[key] ELSE default

\* 'CLOSE'
CLOSE == <<67, 76, 79, 83, 69>>

\* filename.rsplit('.', 1)[-1] if '.' in filename else ''
Ext(filename) ==
    IF Contains(filename, 46)
    THEN LET last == CHOOSE i \in 1..Len(filename) :
                        filename[i] = 46 /\ \A j \in (i + 1)..Len(filename) : filename[j] # 46
         IN  Drop(filename, last)
    ELSE <<>>

\* f"{ext:6}"
Pad6(s) == IF Len(s) >= 6 THEN s ELSE s \o [i \in 1..(6 - Len(s)) |-> 32]

\* timestamp[11:23]
Slice11to23(s) ==
    IF Len(s) <= 11 THEN <<>> ELSE SubSeq(s, 12, IF Len(s) < 23 THEN Len(s) ELSE 23)

\* Locals whose isDirectory default is True.
HandlerLocals_DirDefaultTrue(event) ==
    LET fullPath == Get(event, "fullPath", <<>>)
    IN  [reasons   |-> Get(event, "reasons", <<>>),
         filename  |-> IF fullPath # <<>> THEN fullPath ELSE Get(event, "fileName", <<>>),
         timestamp |-> Get(event, "timestamp", <<>>),
         is_dir    |-> Get(event, "isDirectory", TRUE)]

\* The locals handle_event binds from a dict (lines 77 to 80).
HandlerLocals(event) ==
    LET fullPath == Get(event, "fullPath", <<>>)
    IN  [reasons   |-> Get(event, "reasons", <<>>),
         filename  |-> IF fullPath # <<>> THEN fullPath ELSE Get(event, "fileName", <<>>),
         timestamp |-> Get(event, "timestamp", <<>>),
         is_dir    |-> Get(event, "isDirectory", FALSE)]

\* A handler without the directory check.
HandleEvent_NoDirCheck(event) ==
    IF event.kind # "dict"
    THEN [raised |-> TRUE, exc |-> "AttributeError", printed |-> <<>>]
    ELSE LET l == HandlerLocals(event)
         IN  IF Contains(l.reasons, CLOSE)
             THEN [raised |-> FALSE, exc |-> "none",
                   printed |-> <<[ts |-> Slice11to23(l.timestamp),
                                  ext |-> Pad6(Ext(l.filename)),
                                  filename |-> l.filename]>>]
             ELSE [raised |-> FALSE, exc |-> "none", printed |-> <<>>]

\* A handler that rejects an event carrying a key it does not know.
HandleEvent_RejectsUnknown(event) ==
    IF event.kind # "dict"
    THEN [raised |-> TRUE, exc |-> "AttributeError", printed |-> <<>>]
    ELSE IF \E k \in DOMAIN event.fields :
                k \notin {"reasons", "fullPath", "fileName", "timestamp", "isDirectory"}
    THEN [raised |-> TRUE, exc |-> "KeyError", printed |-> <<>>]
    ELSE LET l == HandlerLocals(event)
         IN  IF Contains(l.reasons, CLOSE) /\ ~l.is_dir
             THEN [raised |-> FALSE, exc |-> "none",
                   printed |-> <<[ts |-> Slice11to23(l.timestamp),
                                  ext |-> Pad6(Ext(l.filename)),
                                  filename |-> l.filename]>>]
             ELSE [raised |-> FALSE, exc |-> "none", printed |-> <<>>]

\* handle_event: what it prints, or the exception it raises. An event that is
\* not a dict has no get().
HandleEvent(event) ==
    IF event.kind # "dict"
    THEN [raised |-> TRUE, exc |-> "AttributeError", printed |-> <<>>]
    ELSE LET l == HandlerLocals(event)
         IN  IF Contains(l.reasons, CLOSE) /\ ~l.is_dir
             THEN [raised |-> FALSE, exc |-> "none",
                   printed |-> <<[ts |-> Slice11to23(l.timestamp),
                                  ext |-> Pad6(Ext(l.filename)),
                                  filename |-> l.filename]>>]
             ELSE [raised |-> FALSE, exc |-> "none", printed |-> <<>>]

\* ---------------------------------------------------------------- state

VARIABLES
    mode,       \* which reader __main__ runs: "none", "stdin" or "pipe"
    pc,         \* position: "main", "open", "read", "extract", "for", "done", "raised"
    pending,    \* what the transport has still to deliver
    received,   \* history: everything the reader was handed so far
    buffer,     \* the pipe reader's buffer (Unbound before line 50)
    records,    \* history: every record taken from the buffer or from stdin
    handled,    \* history: the handle_event invocations
    printed,    \* what handle_event printed
    log,        \* what the pipe reader printed
    exc,        \* the exception that left the reader, "none" if none
    lastRead    \* history: how the latest ReadFile call ended:
                \* "none" (no call yet), "chunk", "zero" (no bytes) or "error"

vars == <<mode, pc, pending, received, buffer, records, handled, printed, log, exc, lastRead>>

\* A local that is not bound yet.
Unbound == <<-1>>

OpenError == "pywintypes.error: CreateFile"

ReadErrorExc == "pywintypes.error: ReadFile"

Init ==
    /\ mode = "none"
    /\ pc = "main"
    /\ pending \in Wires
    /\ received = <<>>
    /\ buffer = Unbound
    /\ records = <<>>
    /\ handled = <<>>
    /\ printed = <<>>
    /\ log = <<>>
    /\ exc = "none"
    /\ lastRead = "none"

\* ------------------------------------------------------------- __main__

\* A reader that calls the handler twice for a decoded record.
Invoke_Twice(h, r, idx) ==
    IF r.outcome \in {"dispatched", "raised"}
    THEN h \o <<[event |-> r.event, idx |-> idx], [event |-> r.event, idx |-> idx]>>
    ELSE h

\* handle_event(event) as the readers call it: one invocation, recorded with
\* the ordinal of the record it was decoded from, when the record decoded.
Invoke(h, r, idx) ==
    IF r.outcome \in {"dispatched", "raised"}
    THEN Append(h, [event |-> r.event, idx |-> idx])
    ELSE h

Main ==
    /\ pc = "main"
    /\ \E pipe \in BOOLEAN :
          /\ mode' = IF pipe THEN "pipe" ELSE "stdin"
          /\ pc' = IF pipe THEN "open" ELSE "for"
    /\ UNCHANGED <<pending, received, buffer, records, handled, printed, log, exc, lastRead>>

\* ------------------------------------------------------ read_from_stdin

\* The next line sys.stdin yields: up to and including the first NL, or the
\* rest of the input when no NL is left.
NextLine(input) == IF Contains(input, NL) THEN Take(input, IndexOf(input, NL)) ELSE input

\* A loop body without the `if not line: continue`: blank lines are decoded.
StdinBody_NoSkip(line) ==
    LET stripped == Strip(line)
        parsed   == JsonLoads(stripped)
        h        == HandleEvent(parsed.event)
    IN  IF ~parsed.ok
        THEN [outcome |-> "discarded", event |-> NoEvent, printed |-> <<>>, exc |-> "none"]
        ELSE IF h.raised
        THEN [outcome |-> "raised", event |-> parsed.event, printed |-> h.printed, exc |-> h.exc]
        ELSE [outcome |-> "dispatched", event |-> parsed.event, printed |-> h.printed, exc |-> "none"]

\* The body of the for loop on one line.
StdinBody(line) ==
    LET stripped == Strip(line)
        parsed   == JsonLoads(stripped)
        h        == HandleEvent(parsed.event)
    IN  IF stripped = <<>>
        THEN [outcome |-> "skipped", event |-> NoEvent, printed |-> <<>>, exc |-> "none"]
        ELSE IF ~parsed.ok
        THEN [outcome |-> "discarded", event |-> NoEvent, printed |-> <<>>, exc |-> "none"]
        ELSE IF h.raised
        THEN [outcome |-> "raised", event |-> parsed.event, printed |-> h.printed, exc |-> h.exc]
        ELSE [outcome |-> "dispatched", event |-> parsed.event, printed |-> h.printed, exc |-> "none"]

StdinLine ==
    /\ pc = "for"
    /\ pending # <<>>
    /\ LET line == NextLine(pending)
           r    == StdinBody(line)
           idx  == Len(records) + 1
       IN  /\ pending' = Drop(pending, Len(line))
           /\ received' = received \o line
           /\ records' = Append(records, [rec |-> line, outcome |-> r.outcome])
           /\ handled' = Invoke(handled, r, idx)
           /\ printed' = printed \o r.printed
           /\ exc' = r.exc
           /\ pc' = IF r.exc # "none" THEN "raised" ELSE "for"
    /\ UNCHANGED <<mode, buffer, log, lastRead>>

StdinEOF ==
    /\ pc = "for"
    /\ pending = <<>>
    /\ pc' = "done"
    /\ UNCHANGED <<mode, pending, received, buffer, records, handled, printed, log, exc, lastRead>>

\* read_from_stdin run on a whole input: the events it passes to the handler,
\* in order, up to and including one whose invocation raises.
RECURSIVE StdinRun(_)
StdinRun(input) ==
    IF input = <<>> THEN <<>>
    ELSE LET line == NextLine(input)
             r    == StdinBody(line)
             rest == Drop(input, Len(line))
         IN  IF r.outcome = "raised" THEN <<r.event>>
             ELSE IF r.outcome = "dispatched" THEN <<r.event>> \o StdinRun(rest)
             ELSE StdinRun(rest)

\* ------------------------------------------------- read_from_named_pipe

LogLine(msg, e) == [msg |-> msg, exc |-> e]

OpenOk ==
    /\ pc = "open"
    /\ log' = log \o <<LogLine("Connecting", "none"), LogLine("Connected", "none")>>
    /\ buffer' = <<>>
    /\ pc' = "read"
    /\ UNCHANGED <<mode, pending, received, records, handled, printed, exc, lastRead>>

\* An open failure that is swallowed: the reader goes on to its read loop.
OpenFail_Continues ==
    /\ pc = "open"
    /\ log' = Append(log, LogLine("Connecting", "none"))
    /\ exc' = OpenError
    /\ buffer' = <<>>
    /\ pc' = "read"
    /\ UNCHANGED <<mode, pending, received, records, handled, printed, lastRead>>

OpenFail ==
    /\ pc = "open"
    /\ log' = Append(log, LogLine("Connecting", "none"))
    /\ exc' = OpenError
    /\ pc' = "raised"
    /\ UNCHANGED <<mode, pending, received, buffer, records, handled, printed, lastRead>>

\* ReadFile returns the next k bytes of the pipe, k = 0 included.
ReadChunk ==
    /\ pc = "read"
    /\ \E k \in 0..(IF Len(pending) < ReadSize THEN Len(pending) ELSE ReadSize) :
          /\ buffer' = buffer \o Take(pending, k)
          /\ received' = received \o Take(pending, k)
          /\ pending' = Drop(pending, k)
          /\ lastRead' = IF k = 0 THEN "zero" ELSE "chunk"
    /\ pc' = "extract"
    /\ UNCHANGED <<mode, records, handled, printed, log, exc>>

\* A read error answered by a reconnect: the reader opens the pipe again.
ReadError_Reconnect ==
    /\ pc = "read"
    /\ log' = Append(log, LogLine("Pipe disconnected", ReadErrorExc))
    /\ pc' = "open"
    /\ lastRead' = "error"
    /\ UNCHANGED <<mode, pending, received, buffer, records, handled, printed, exc>>

\* A read error that is logged without the break.
ReadError_NoBreak ==
    /\ pc = "read"
    /\ log' = Append(log, LogLine("Pipe disconnected", ReadErrorExc))
    /\ pc' = "read"
    /\ lastRead' = "error"
    /\ UNCHANGED <<mode, pending, received, buffer, records, handled, printed, exc>>

\* ReadFile raises (the writer went away, the handle broke).
ReadError ==
    /\ pc = "read"
    /\ log' = Append(log, LogLine("Pipe disconnected", ReadErrorExc))
    /\ pc' = "done"
    /\ lastRead' = "error"
    /\ UNCHANGED <<mode, pending, received, buffer, records, handled, printed, exc>>

\* A split at the last separator (rsplit): the line holds every earlier record.
Partition_AtLastNewline(buf) ==
    LET i == CHOOSE j \in 1..Len(buf) : buf[j] = NL /\ \A k \in (j + 1)..Len(buf) : buf[k] # NL
    IN  [line |-> Take(buf, i - 1), rest |-> Drop(buf, i)]

\* A split that is off by one: the byte after the separator is lost.
Partition_OffByOne(buf) ==
    LET i == IndexOf(buf, NL)
    IN  [line |-> Take(buf, i - 1), rest |-> Drop(buf, i + 1)]

\* buffer.split(b'\n', 1)
Partition(buf) ==
    LET i == IndexOf(buf, NL)
    IN  [line |-> Take(buf, i - 1), rest |-> Drop(buf, i)]

\* An inner try block whose except clause misses the decode errors: they reach
\* the outer handler.
PipeBody_DecodeErrorEscapes(line) ==
    LET parsed == JsonLoads(line)
        h      == HandleEvent(parsed.event)
    IN  IF ~Utf8Valid(line) \/ ~parsed.ok
        THEN [outcome |-> "discarded", event |-> NoEvent, printed |-> <<>>, exc |-> "JSONDecodeError"]
        ELSE IF h.raised
        THEN [outcome |-> "raised", event |-> parsed.event, printed |-> h.printed, exc |-> h.exc]
        ELSE [outcome |-> "dispatched", event |-> parsed.event, printed |-> h.printed, exc |-> "none"]

\* The inner try block on one record.
PipeBody(line) ==
    LET parsed == JsonLoads(line)
        h      == HandleEvent(parsed.event)
    IN  IF ~Utf8Valid(line) \/ ~parsed.ok
        THEN [outcome |-> "discarded", event |-> NoEvent, printed |-> <<>>, exc |-> "none"]
        ELSE IF h.raised
        THEN [outcome |-> "raised", event |-> parsed.event, printed |-> h.printed, exc |-> h.exc]
        ELSE [outcome |-> "dispatched", event |-> parsed.event, printed |-> h.printed, exc |-> "none"]

\* An iteration that resynchronises after a bad record by emptying the buffer.
ExtractLine_DiscardFlushes ==
    /\ pc = "extract"
    /\ Contains(buffer, NL)
    /\ LET p   == Partition(buffer)
           r   == PipeBody(p.line)
           idx == Len(records) + 1
       IN  /\ buffer' = IF r.outcome = "discarded" THEN <<>> ELSE p.rest
           /\ records' = Append(records, [rec |-> p.line, outcome |-> r.outcome])
           /\ handled' = Invoke(handled, r, idx)
           /\ printed' = printed \o r.printed
           /\ log' = IF r.exc # "none"
                     THEN Append(log, LogLine("Pipe disconnected", r.exc))
                     ELSE log
           /\ pc' = IF r.exc # "none" THEN "done" ELSE "extract"
    /\ UNCHANGED <<mode, pending, received, exc, lastRead>>

\* One iteration of the inner while loop. An exception that leaves the inner
\* try block is caught by the outer one, which prints and breaks.
ExtractLine ==
    /\ pc = "extract"
    /\ Contains(buffer, NL)
    /\ LET p   == Partition(buffer)
           r   == PipeBody(p.line)
           idx == Len(records) + 1
       IN  /\ buffer' = p.rest
           /\ records' = Append(records, [rec |-> p.line, outcome |-> r.outcome])
           /\ handled' = Invoke(handled, r, idx)
           /\ printed' = printed \o r.printed
           /\ log' = IF r.exc # "none"
                     THEN Append(log, LogLine("Pipe disconnected", r.exc))
                     ELSE log
           /\ pc' = IF r.exc # "none" THEN "done" ELSE "extract"
    /\ UNCHANGED <<mode, pending, received, exc, lastRead>>

\* An `if` in place of the `while`: the pass may end with records left.
ExtractExit_Early ==
    /\ pc = "extract"
    /\ pc' = "read"
    /\ UNCHANGED <<mode, pending, received, buffer, records, handled, printed, log, exc, lastRead>>

\* The inner while loop ends: no NL is left in the buffer.
ExtractExit ==
    /\ pc = "extract"
    /\ ~Contains(buffer, NL)
    /\ pc' = "read"
    /\ UNCHANGED <<mode, pending, received, buffer, records, handled, printed, log, exc, lastRead>>

Next ==
    \/ Main
    \/ StdinLine
    \/ StdinEOF
    \/ OpenOk
    \/ OpenFail
    \/ ReadChunk
    \/ ReadError
    \/ ExtractLine
    \/ ExtractExit

Spec == Init /\ [][Next]_vars

\* ------------------------------------------- handle_event on its own

\* The field names handle_event reads.
RecognizedKeys == {"reasons", "fullPath", "fileName", "timestamp", "isDirectory"}

\* 'DATA', a reason other than 'CLOSE'
DATA == <<68, 65, 84, 65>>

\* 'C:\a.txt'
PathATxt == <<67, 58, 92, 97, 46, 116, 120, 116>>

\* 'C:\b'
PathB == <<67, 58, 92, 98>>

\* '2024-01-01T00:00:00.1234567Z'
Timestamp == <<50, 48, 50, 52, 45, 48, 49, 45, 48, 49, 84, 48, 48, 58, 48, 48, 58, 48, 48, 46, 49, 50, 51, 52, 53, 54, 55, 90>>

Absent(v) == [has |-> FALSE, v |-> v]

Present(v) == [has |-> TRUE, v |-> v]

\* What a record may carry in each field (Absent: the key is missing). "usn"
\* stands for any field handle_event does not read.
FieldChoices ==
    [reasons     : {Absent(<<>>), Present(<<>>), Present(<<CLOSE>>), Present(<<DATA>>),
                    Present(<<DATA, CLOSE>>)},
     fullPath    : {Absent(<<>>), Present(<<>>), Present(PathATxt), Present(PathB)},
     fileName    : {Absent(<<>>), Present(<<97, 46, 116, 120, 116>>), Present(<<98>>)},
     timestamp   : {Absent(<<>>), Present(Timestamp), Present(<<50, 48, 50, 52, 45, 48, 49, 45, 48, 49>>)},
     isDirectory : {Absent(FALSE), Present(FALSE), Present(TRUE)},
     usn         : {Absent(0), Present(1), Present(2)}]

\* The dict json.loads builds from the fields a record carries.
MkEvent(c) == DictEvent([k \in {k \in DOMAIN c : c[k].has} |-> c[k].v])

\* The decoded events handed to the handler: the objects above and one value
\* that is not an object.
Events == {MkEvent(c) : c \in FieldChoices} \cup {IntEvent(1)}

\* The two records of the example: a CLOSE of the file C:\a.txt, then a CLOSE of
\* the directory C:\b.
ExampleStream ==
    << DictEvent([reasons |-> <<CLOSE>>, fullPath |-> PathATxt, timestamp |-> Timestamp,
                  isDirectory |-> FALSE]),
       DictEvent([reasons |-> <<CLOSE>>, fullPath |-> PathB, isDirectory |-> TRUE]) >>

\* The runs of decoded events: every single event, and the example.
EventQueues == {<<e>> : e \in Events} \cup {ExampleStream}

\* The decoded events wait in `pending`; the caller hands them to the handler in
\* order, as the readers do with each event they decode.
HandlerInit ==
    /\ mode = "handler"
    /\ pc = "call"
    /\ pending \in EventQueues
    /\ received = <<>>
    /\ buffer = Unbound
    /\ records = <<>>
    /\ handled = <<>>
    /\ printed = <<>>
    /\ log = <<>>
    /\ exc = "none"
    /\ lastRead = "none"

\* handle_event(event) for the next decoded event.
HandlerCall ==
    /\ pc = "call"
    /\ pending # <<>>
    /\ LET event == Head(pending)
           h     == HandleEvent(event)
           r     == [outcome |-> IF h.raised THEN "raised" ELSE "dispatched", event |-> event]
       IN  /\ pending' = Tail(pending)
           /\ handled' = Invoke(handled, r, Len(handled) + 1)
           /\ printed' = printed \o h.printed
           /\ exc' = h.exc
           /\ pc' = IF h.raised THEN "raised" ELSE "call"
    /\ UNCHANGED <<mode, received, buffer, records, log, lastRead>>

\* No decoded event is left.
HandlerReturn ==
    /\ pc = "call"
    /\ pending = <<>>
    /\ pc' = "done"
    /\ UNCHANGED <<mode, pending, received, buffer, records, handled, printed, log, exc, lastRead>>

HandlerNext ==
    \/ HandlerCall
    \/ HandlerReturn

HandlerSpec == HandlerInit /\ [][HandlerNext]_vars

\* ------------------------------------------------------ claim vocabulary

\* The newline-terminated records of a stream, in order.
RECURSIVE SplitLines(_)
SplitLines(s) ==
    IF ~Contains(s, NL) THEN <<>>
    ELSE LET i == CHOOSE j \in 1..Len(s) : s[j] = NL /\ \A k \in 1..(j - 1) : s[k] # NL
         IN  <<SubSeq(s, 1, i - 1)>> \o SplitLines(SubSeq(s, i + 1, Len(s)))

\* The bytes of a stream after its last NL (the whole stream if it has none).
RECURSIVE TailAfterLastNL(_)
TailAfterLastNL(s) ==
    IF s = <<>> \/ s[Len(s)] = NL THEN <<>>
    ELSE Append(TailAfterLastNL(SubSeq(s, 1, Len(s) - 1)), s[Len(s)])

\* Whether reader m decodes record rec, and to which event.
DecodeOf(m, rec) ==
    IF m = "pipe"
    THEN IF Utf8Valid(rec) THEN JsonLoads(rec) ELSE [ok |-> FALSE, event |-> NoEvent]
    ELSE JsonLoads(Strip(rec))

\* The events of the records of recs that reader m decodes, in order.
RECURSIVE ValidEvents(_, _)
ValidEvents(m, recs) ==
    IF recs = <<>> THEN <<>>
    ELSE LET d == DecodeOf(m, recs[Len(recs)])
             before == ValidEvents(m, SubSeq(recs, 1, Len(recs) - 1))
         IN  IF d.ok THEN Append(before, d.event) ELSE before

\* One invocation, with the record's ordinal, per decodable record among the
\* first n of recs.
RECURSIVE ExpectedHandled(_, _, _)
ExpectedHandled(m, recs, n) ==
    IF n = 0 THEN <<>>
    ELSE LET d == DecodeOf(m, recs[n].rec)
             before == ExpectedHandled(m, recs, n - 1)
         IN  IF d.ok THEN Append(before, [event |-> d.event, idx |-> n]) ELSE before

HandledEvents == [i \in 1..Len(handled) |-> handled[i].event]

RecordBytes == [i \in 1..Len(records) |-> records[i].rec]

\* ---------------------------------------------------------------- claims

\* C1: framing correctness of read_from_named_pipe: whenever the reader is
\* between two reads or has ended, the handler has been invoked with exactly
\* the decodable ones of the newline-terminated records received, in order,
\* however the stream was cut into chunks.
C1_FramingCorrectness ==
    (mode = "pipe" /\ pc \in {"read", "done"})
        => HandledEvents = ValidEvents("pipe", SplitLines(received))

\* C2: no byte loss in read_from_named_pipe: in every state of the read loop
\* the bytes received are the extracted records, each followed by one NL,
\* followed by the buffer.
C2_NoByteLoss ==
    (mode = "pipe" /\ buffer # Unbound)
        => received = Flatten([i \in 1..Len(records) |-> Append(records[i].rec, NL)]) \o buffer

C2_Witness ==
    /\ mode = "pipe"
    /\ buffer # Unbound /\ buffer # <<>>
    /\ \E i, j \in 1..Len(records) :
          records[i].outcome = "dispatched" /\ records[j].outcome = "discarded"

\* C3: when the loop of read_from_named_pipe has ended, the buffer holds exactly
\* the bytes received after the last NL, and only newline-terminated records
\* were passed to the decoder.
C3_BufferAtStreamEnd ==
    (mode = "pipe" /\ pc = "done")
        => /\ buffer = TailAfterLastNL(received)
           /\ RecordBytes = SplitLines(received)

\* C4: in both readers the handler is invoked exactly once per decoded record,
\* in the order of the records: the invocations are, in order, the decodable
\* ones of the records taken so far, none twice and none left out.
C4_ExactlyOnceInOrder ==
    mode \in {"stdin", "pipe"} => handled = ExpectedHandled(mode, records, Len(records))

C4_Witness ==
    /\ mode = "pipe"
    /\ Len(handled) >= 2
    /\ Len(records) > Len(handled)
    /\ handled[2].idx > handled[1].idx + 1

\* A step that takes a record the reader cannot decode.
DiscardStep ==
    /\ Len(records') = Len(records) + 1
    /\ ~DecodeOf(mode, records'[Len(records')].rec).ok

C6_OneBadMessageCannotHalt ==
    /\ pc = "raised" => exc = OpenError
    /\ (mode = "pipe" /\ pc = "done")
          => log[Len(log)] = LogLine("Pipe disconnected", ReadErrorExc)
    /\ (mode = "stdin" /\ pc = "done") => pending = <<>>

\* C7: an exception raised by the handler is not caught by either reader: it
\* leaves the reader, and is never reported as a pipe disconnect.
C7_HandlerExceptionPropagates ==
    (handled # <<>> /\ HandleEvent(handled[Len(handled)].event).raised)
        => /\ pc = "raised"
           /\ exc = HandleEvent(handled[Len(handled)].event).exc
           /\ \A i \in 1..Len(log) : log[i].msg # "Pipe disconnected"

\* C8: line-stream equivalence: when read_from_named_pipe has taken a stream of
\* newline-terminated text records, its handler invocations are those
\* read_from_stdin makes on the same records delivered as lines.
C8_LineStreamEquivalence ==
    (mode = "pipe" /\ pc \in {"read", "done"} /\ buffer = <<>> /\ Utf8Valid(received))
        => HandledEvents = StdinRun(received)

\* C9 as claimed: a read that returns no bytes, like a read error, is logged and
\* ends the loop.
C9_ZeroLengthEndsLoop ==
    lastRead \in {"zero", "error"}
        => /\ pc = "done"
           /\ log[Len(log)].msg = "Pipe disconnected"

\* C9: a read error is logged and ends the loop, and the reader returns
\* normally; a read that returns no bytes does not end the loop.
C9_ReadErrorEndsLoop ==
    /\ lastRead = "error"
          => /\ pc = "done"
             /\ exc = "none"
             /\ log[Len(log)] = LogLine("Pipe disconnected", ReadErrorExc)
    /\ lastRead = "zero" => (pc \in {"extract", "read"} /\ exc = "none")

C9_Witness ==
    /\ lastRead = "error"
    /\ received # <<>>
    /\ pc = "done"

\* C10: fail-fast open: when opening the pipe fails the failure reaches the
\* caller and the loop never starts: no read, no buffer, no handler invocation.
C10_FailFastOpen ==
    exc = OpenError
        => /\ pc = "raised"
           /\ buffer = Unbound
           /\ lastRead = "none"
           /\ received = <<>>
           /\ records = <<>>
           /\ handled = <<>>
           /\ log = <<LogLine("Connecting", "none")>>

C10_Witness ==
    /\ mode = "pipe"
    /\ exc = OpenError
    /\ pc = "raised"

\* The number of NL bytes in s.
CountNL(s) == Cardinality({i \in 1..Len(s) : s[i] = NL})

\* How often the pipe was opened (each open is announced once).
OpenCount == Cardinality({i \in 1..Len(log) : log[i].msg = "Connecting"})

\* A step in which the reader does not open, read, take a record or invoke.
NothingMore ==
    /\ pc' = pc
    /\ log' = log
    /\ lastRead' = lastRead
    /\ received' = received
    /\ records' = records
    /\ handled' = handled

\* C11: CLOSED is terminal: once a reader has ended (returned or raised) it
\* takes no further step: no open, no read, no handler invocation; and a run
\* opens at most one connection.
C11_ClosedIsTerminal ==
    /\ [][(pc = "done" \/ pc = "raised") => NothingMore]_vars
    /\ [](OpenCount <= 1)
    /\ [](mode = "stdin" => OpenCount = 0)

C11_Witness ==
    /\ mode = "pipe"
    /\ pc = "done"
    /\ lastRead = "error"
    /\ handled # <<>>
    /\ pending # <<>>

\* C15: FrameBuffer invariant and implicit back-pressure: whenever
\* read_from_named_pipe is about to read, its buffer holds no NL and is the
\* unterminated end of what was received, and every record the received chunks
\* completed has been taken and decoded (dispatched or discarded).
C15_DrainedBeforeRead ==
    (mode = "pipe" /\ pc = "read")
        => /\ ~Contains(buffer, NL)
           /\ buffer = TailAfterLastNL(received)
           /\ RecordBytes = SplitLines(received)
           /\ \A i \in 1..Len(records) : records[i].outcome \in {"dispatched", "discarded"}
           /\ HandledEvents = ValidEvents("pipe", RecordBytes)

C15_Witness ==
    /\ mode = "pipe"
    /\ pc = "read"
    /\ lastRead = "chunk"
    /\ Len(records) >= 2
    /\ buffer # <<>>
    /\ pending # <<>>

\* The record the step took.
Taken == records'[Len(records')].rec

\* What a discard in the pipe reader changes: the record and its NL leave the
\* front of the buffer, everything behind them stays, the handler is not
\* invoked, nothing is printed or logged, and the pass goes on.
DiscardEffect ==
    /\ buffer = Append(Taken, NL) \o buffer'
    /\ ~Contains(Taken, NL)
    /\ handled' = handled
    /\ printed' = printed
    /\ log' = log
    /\ exc' = exc
    /\ received' = received
    /\ pending' = pending
    /\ pc' = "extract"

\* C16: discarding a record in read_from_named_pipe affects that record only.
C16_DiscardFrame ==
    [][(mode = "pipe" /\ DiscardStep) => DiscardEffect]_vars

\* A discard has just happened and the next record of the same pass is waiting.
C16_Witness ==
    /\ mode = "pipe"
    /\ pc = "extract"
    /\ records # <<>>
    /\ records[Len(records)].outcome = "discarded"
    /\ records[Len(records)].rec # <<>>
    /\ Contains(buffer, NL)
    /\ buffer[1] # NL

\* One iteration of the inner loop: a step that takes a record from the buffer.
IterationStep == mode = "pipe" /\ pc = "extract" /\ Len(records') = Len(records) + 1

\* An iteration removes the first NL and everything before it.
IterationEffect ==
    /\ CountNL(buffer') = CountNL(buffer) - 1
    /\ Len(buffer') < Len(buffer)
    /\ ~Contains(Taken, NL)
    /\ buffer = Append(Taken, NL) \o buffer'

\* C18: every extraction pass of read_from_named_pipe terminates: an iteration
\* removes the first NL and what precedes it, so the NL count and the length of
\* the buffer strictly decrease; while the handler returns, the iterations made
\* and the NL bytes left in the buffer add up to the NL bytes received, so a
\* pass makes one iteration per NL and ends with none left.
C18_ExtractionPassTerminates ==
    /\ [][IterationStep => IterationEffect]_vars
    /\ []((mode = "pipe" /\ buffer # Unbound) => Len(records) + CountNL(buffer) = CountNL(received))
    /\ []((mode = "pipe" /\ pc = "read") => (CountNL(buffer) = 0 /\ Len(records) = CountNL(received)))

\* In the middle of a pass: records were taken and two more are waiting.
C18_Witness ==
    /\ mode = "pipe"
    /\ pc = "extract"
    /\ records # <<>>
    /\ CountNL(buffer) >= 2
    /\ buffer[1] # NL

\* Whether str.strip() leaves nothing of a line (stated on the characters).
Blank(line) == \A i \in 1..Len(line) : line[i] \in StripWhitespace

\* The ordinals of the records the handler was invoked for.
HandledIdx == {handled[i].idx : i \in 1..Len(handled)}

\* A step of the for loop of read_from_stdin.
StdinStep == mode = "stdin" /\ pc = "for"

\* It takes the next line, or it ends the loop: normally at end of input, with
\* the handler's exception when the handler raised on the line it took.
StdinProgress ==
    \/ /\ pc' = "for"
       /\ Len(pending') < Len(pending)
       /\ Len(records') = Len(records) + 1
       /\ exc' = "none"
    \/ /\ pc' = "done"
       /\ pending = <<>>
       /\ exc' = "none"
    \/ /\ pc' = "raised"
       /\ Len(handled') = Len(handled) + 1
       /\ HandleEvent(handled'[Len(handled')].event).raised

\* C17: the Line-Stream Reader contract: read_from_stdin takes every line of the
\* input; a line that is blank after stripping goes neither to the decoder nor
\* to the handler; every other line is decoded and, when it decodes, dispatched;
\* each step of the loop consumes a line or ends the loop, so a finite input is
\* exhausted; and at end of input the reader returns without an error.
C17_LineStreamContract ==
    /\ [][StdinStep => StdinProgress]_vars
    /\ [](mode = "stdin" =>
            /\ Flatten(RecordBytes) = received
            /\ \A i \in 1..Len(records) :
                  /\ (records[i].outcome = "skipped") = Blank(records[i].rec)
                  /\ Blank(records[i].rec) => i \notin HandledIdx
                  /\ ~Blank(records[i].rec) =>
                        ((i \in HandledIdx) = JsonLoads(Strip(records[i].rec)).ok))
    /\ []((mode = "stdin" /\ pc = "done") => (pending = <<>> /\ exc = "none"))
    /\ []((mode = "stdin" /\ pc = "for" /\ pending = <<>>) => ENABLED StdinEOF)

\* The input is exhausted and the reader has returned, having skipped a blank
\* line, dropped a malformed one and dispatched a valid one.
C17_Witness ==
    /\ mode = "stdin"
    /\ pc = "done"
    /\ \E i, j, k \in 1..Len(records) :
          /\ records[i].outcome = "skipped"
          /\ records[j].outcome = "discarded"
          /\ records[k].outcome = "dispatched"

\* Whether key k is among the fields of event e.
Has(e, k) == k \in DOMAIN e.fields

\* 'CLOSE' is among the reasons of e and e is not marked a directory.
ShouldPrint(e) ==
    /\ e.kind = "dict"
    /\ Has(e, "reasons")
    /\ \E i \in 1..Len(e.fields["reasons"]) : e.fields["reasons"][i] = CLOSE
    /\ ~(Has(e, "isDirectory") /\ e.fields["isDirectory"] = TRUE)

\* The line the example must print: [00:00:00.123] txt    C:\a.txt
ExampleLine == [ts |-> <<48, 48, 58, 48, 48, 58, 48, 48, 46, 49, 50, 51>>, ext |-> <<116, 120, 116, 32, 32, 32>>, filename |-> <<67, 58, 92, 97, 46, 116, 120, 116>>]

\* C12: the reference handler's filter and the example: handle_event prints
\* one line for an event when 'CLOSE' is among its reasons and isDirectory is
\* false, and nothing otherwise; the example stream prints exactly one line,
\* that of its first record with extension txt, its second record (a directory)
\* being filtered.
C12_HandlerFilter ==
    mode = "handler"
        => /\ Len(printed) = Cardinality({i \in 1..Len(handled) : ShouldPrint(handled[i].event)})
           /\ \A i \in 1..Len(handled) :
                 Len(HandleEvent(handled[i].event).printed)
                     = (IF ShouldPrint(handled[i].event) THEN 1 ELSE 0)
           /\ HandledEvents = ExampleStream
                 => (printed = <<ExampleLine>> /\ exc = "none" /\ ~ShouldPrint(handled[2].event))

C12_Witness ==
    /\ mode = "handler"
    /\ pc = "done"
    /\ HandledEvents = ExampleStream
    /\ Len(printed) = 1

\* What handle_event prints for a CLOSE that carries nothing else.
BareCloseLine == [ts |-> <<>>, ext |-> <<32, 32, 32, 32, 32, 32>>, filename |-> <<>>]

\* Every recognized field e lacks is read as its default, whatever else e holds.
ReadsDefaults(e) ==
    LET l == HandlerLocals(e)
    IN  /\ ~Has(e, "reasons") => l.reasons = <<>>
        /\ ~Has(e, "timestamp") => l.timestamp = <<>>
        /\ ~Has(e, "isDirectory") => l.is_dir = FALSE
        /\ (~Has(e, "fullPath") /\ ~Has(e, "fileName")) => l.filename = <<>>
        /\ (~Has(e, "fullPath") /\ Has(e, "fileName")) => l.filename = e.fields["fileName"]

\* C13: default-field policy: {} decodes to an event without fields, which the
\* handler reads as reasons = [], filename = '', timestamp = '', isDirectory =
\* False (so it prints nothing and does not raise), and every absent recognized
\* field is read as its default whichever other fields are present; a CLOSE
\* that carries nothing else prints the defaults.
C13_DefaultFields ==
    mode = "handler"
        => /\ JsonLoads(<<123, 125>>) = [ok |-> TRUE, event |-> DictEvent(<<>>)]
           /\ \A i \in 1..Len(handled) :
                 handled[i].event.kind = "dict" => ReadsDefaults(handled[i].event)
           /\ HandledEvents = <<DictEvent(<<>>)>> => (printed = <<>> /\ exc = "none" /\ pc # "raised")
           /\ (Len(handled) = 1 /\ handled[1].event.kind = "dict"
               /\ DOMAIN handled[1].event.fields \cap RecognizedKeys = {"reasons"}
               /\ handled[1].event.fields["reasons"] = <<CLOSE>>)
                 => printed = <<BareCloseLine>>

C13_Witness ==
    /\ mode = "handler"
    /\ pc = "done"
    /\ HandledEvents = <<DictEvent(<<>>)>>

\* Two objects that carry the same recognized fields with the same values.
Agree(e1, e2) ==
    /\ e1.kind = "dict"
    /\ e2.kind = "dict"
    /\ DOMAIN e1.fields \cap RecognizedKeys = DOMAIN e2.fields \cap RecognizedKeys
    /\ \A k \in DOMAIN e1.fields \cap RecognizedKeys : e1.fields[k] = e2.fields[k]

\* C14: unknown additional fields are ignored, not rejected: an object that
\* differs from the one handled only in fields the handler does not read would
\* have produced exactly what this one produced: the same output, and like it
\* no exception.
C14_UnknownFieldsIgnored ==
    (mode = "handler" /\ pc = "done" /\ Len(handled) = 1)
        => \A e2 \in Events :
              Agree(handled[1].event, e2)
                  => /\ HandleEvent(e2).printed = printed
                     /\ ~HandleEvent(e2).raised
                     /\ exc = "none"

C14_Witness ==
    /\ mode = "handler"
    /\ pc = "done"
    /\ Len(handled) = 1
    /\ Has(handled[1].event, "usn")
    /\ printed # <<>>

====
